---------------------------- MODULE Spec2Model ----------------------------
(***************************************************************************)
(* A model of the supercup analysis code: the veld classifier and the crew *)
(* progression tracker (crew_tracking.py), the race-number extraction      *)
(* (data_processing.py) and the four-column Sankey builder with its format *)
(* detection and layout (visualization.py).                                *)
(*                                                                         *)
(* Python strings are sequences of one-character strings, so that `in`,    *)
(* startswith, split, strip, upper and sorted() are computed, not assumed. *)
(* An optional value (a dict entry that may be absent or None) is a record *)
(* [t |-> "none" | "str", s |-> <characters>].                             *)
(***************************************************************************)
EXTENDS Integers, Sequences, FiniteSets, TLC

VARIABLES
    \* ---- extract_veld (crew_tracking.py)
    veld_value,        \* the raw value handed to extract_veld
    veld_result,       \* what extract_veld returned for it
    vpc,               \* "start" | "done"
    \* ---- track_crew_progression_with_slag (crew_tracking.py)
    crew_progression,  \* crew key -> record, as a set of [key, code, ..., stages]
    processed,         \* the entries consumed so far, in loop order
    \* ---- calc_positions (visualization.py)
    lay_counts,        \* the weights of a column's nodes, in column order
    lay_positions,     \* the y assigned to each node, a fraction <<num, den>>
    lpc,               \* "start" | "done"
    \* ---- detect_competition_format + create_four_column_cumulative_sankey
    all_race_data,     \* [halve |-> <<race>>, finales |-> <<race>>], race = [name, entries]
    pc,                \* the builder's position
    config,            \* what detect_competition_format returned
    flows,             \* the list of (source, target, value) triples
    node_counts,       \* node -> count, in insertion order: a sequence of [node, n]
    columns,           \* <<col1_nodes, col2_nodes, col3_nodes, col4_nodes>>
    positions,         \* all_positions, a sequence of [node, x, y] in all_nodes order
    links,             \* flow_dict in insertion order: a sequence of [source, target, value]
    node_labels,       \* the display label of each node, in all_nodes order
    node_colors,       \* the colour of each node, in all_nodes order
    run,               \* 1 or 2: which run of the pipeline on this input
    first_output       \* the graph description the first run produced

veldVars  == <<veld_value, veld_result, vpc>>
trackVars == <<crew_progression, processed>>
layVars   == <<lay_counts, lay_positions, lpc>>
sankVars  == <<all_race_data, pc, config, flows, node_counts, columns,
               positions, links, node_labels, node_colors, run, first_output>>
vars      == <<veldVars, trackVars, layVars, sankVars>>

\* Each specification below exercises one part of the program; the variables of
\* the other parts then stay at these values.
VeldIdle == veld_value = [t |-> "none", s |-> <<>>, n |-> 0] /\ veld_result = <<>> /\ vpc = "idle"

TrackIdle == crew_progression = <<>> /\ processed = <<>>

LayIdle == lay_counts = <<>> /\ lay_positions = <<>> /\ lpc = "idle"

SankIdle ==
    /\ all_race_data = <<>> /\ pc = "idle" /\ config = <<>> /\ flows = <<>>
    /\ node_counts = <<>> /\ columns = <<>> /\ positions = <<>> /\ links = <<>>
    /\ node_labels = <<>> /\ node_colors = <<>>
    /\ run = 0 /\ first_output = <<>>

----------------------------------------------------------------------------
(* Python str operations on sequences of characters *)

\* U+0131, LATIN SMALL LETTER DOTLESS I: a lower-case letter whose upper case
\* is 'I', and that re.IGNORECASE takes for an 'i'
DotlessI == "U+0131"

\* The characters the model uses, in code-point order (what sorted() compares).
Alphabet ==
    <<" ", "(", ")", "+", "-", "0", "1", "2", "3", "4", "5", "6", "7", "8", "9",
      "A", "B", "C", "D", "E", "F", "G", "H", "I", "J", "K", "L", "M", "N", "O",
      "P", "Q", "R", "S", "T", "U", "V", "W", "X", "Y", "Z", "_",
      "a", "b", "c", "d", "e", "f", "g", "h", "i", "j", "k", "l", "m", "n", "o",
      "p", "q", "r", "s", "t", "u", "v", "w", "x", "y", "z", DotlessI>>

Chars == {Alphabet[i] : i \in 1..Len(Alphabet)}

\* ord(), up to the offset of the first character; tabulated once
OrdTable == [c \in Chars |-> CHOOSE i \in 1..Len(Alphabet) : Alphabet[i] = c]

Ord(c) == OrdTable[c]

Digits == <<"0", "1", "2", "3", "4", "5", "6", "7", "8", "9">>

IsDigitChar(c) == c \in {"0", "1", "2", "3", "4", "5", "6", "7", "8", "9"}

DigitVal(c) == Ord(c) - Ord("0")

IsLowerChar(c) == Ord(c) >= Ord("a") /\ Ord(c) <= Ord("z")

IsUpperChar(c) == Ord(c) >= Ord("A") /\ Ord(c) <= Ord("Z")

UpperTable ==
    [c \in Chars |-> IF IsLowerChar(c) THEN Alphabet[Ord(c) - Ord("a") + Ord("A")]
                     ELSE IF c = DotlessI THEN "I" ELSE c]

LowerTable ==
    [c \in Chars |-> IF IsUpperChar(c) THEN Alphabet[Ord(c) - Ord("A") + Ord("a")] ELSE c]

UpperChar(c) == UpperTable[c]

LowerChar(c) == LowerTable[c]

\* s.upper(), s.lower()
Upper(s) == [i \in 1..Len(s) |-> UpperChar(s[i])]

Lower(s) == [i \in 1..Len(s) |-> LowerChar(s[i])]

\* p occurs in s starting at index i
MatchAt(p, s, i) ==
    /\ i >= 1
    /\ i + Len(p) - 1 <= Len(s)
    /\ \A k \in 1..Len(p) : s[i + k - 1] = p[k]

\* `p in s`
In(p, s) == \E i \in 1..(Len(s) - Len(p) + 1) : MatchAt(p, s, i)

\* s.startswith(p), s.endswith(p)
StartsWith(s, p) == MatchAt(p, s, 1)

EndsWith(s, p) == MatchAt(p, s, Len(s) - Len(p) + 1)

\* s.find(p), 0 when p does not occur (indices are 1-based here)
Find(p, s) ==
    IF In(p, s)
    THEN CHOOSE i \in 1..(Len(s) - Len(p) + 1) :
            MatchAt(p, s, i) /\ \A j \in 1..(i - 1) : ~MatchAt(p, s, j)
    ELSE 0

\* s.strip()
RECURSIVE LStrip(_)
LStrip(s) == IF s # <<>> /\ Head(s) = " " THEN LStrip(Tail(s)) ELSE s

RECURSIVE RStrip(_)
RStrip(s) ==
    IF s # <<>> /\ s[Len(s)] = " " THEN RStrip(SubSeq(s, 1, Len(s) - 1)) ELSE s

\* a slip of line 23: the value is not stripped
StripNothing(s) == s

Strip(s) == RStrip(LStrip(s))

\* a < b as Python compares str: by code point, a proper prefix first
RECURSIVE StrLess(_, _)
StrLess(a, b) ==
    IF b = <<>> THEN FALSE
    ELSE IF a = <<>> THEN TRUE
    ELSE IF Head(a) = Head(b) THEN StrLess(Tail(a), Tail(b))
    ELSE Ord(Head(a)) < Ord(Head(b))

\* sorted(S) for a set S of str
RECURSIVE SortedStrs(_)
SortedStrs(S) ==
    IF S = {} THEN <<>>
    ELSE LET m == CHOOSE x \in S : \A y \in S \ {x} : StrLess(x, y)
         IN  <<m>> \o SortedStrs(S \ {m})

\* the elements of a sequence
Range(q) == {q[i] : i \in 1..Len(q)}

\* [x for x in q if Keep(x)]
RECURSIVE SelectSeqBy(_, _)
SelectSeqBy(q, keep) ==
    IF q = <<>> THEN <<>>
    ELSE (IF Head(q) \in keep THEN <<Head(q)>> ELSE <<>>) \o SelectSeqBy(Tail(q), keep)

\* Python values: None (also an absent dict entry, where .get() gives None),
\* a str, an int
NoneV == [t |-> "none", s |-> <<>>, n |-> 0]

Str(s) == [t |-> "str", s |-> s, n |-> 0]

IntV(k) == [t |-> "int", s |-> <<>>, n |-> k]

\* Python truthiness
Truthy(v) == (v.t = "str" /\ v.s # <<>>) \/ (v.t = "int" /\ v.n # 0)

\* str(k)
RECURSIVE IntToStr(_)
IntToStr(k) ==
    IF k < 0 THEN <<"-">> \o IntToStr(0 - k)
    ELSE IF k < 10 THEN <<Digits[k + 1]>>
    ELSE IntToStr(k \div 10) \o <<Digits[(k % 10) + 1]>>

\* f"{v}"
Format(v) ==
    IF v.t = "none" THEN <<"N","o","n","e">>
    ELSE IF v.t = "int" THEN IntToStr(v.n) ELSE v.s

\* s.isdigit()
IsDigitStr(s) == s # <<>> /\ \A i \in 1..Len(s) : IsDigitChar(s[i])

\* int(s) for a str of digits
RECURSIVE DigitsToInt(_)
DigitsToInt(s) ==
    IF s = <<>> THEN 0
    ELSE 10 * DigitsToInt(SubSeq(s, 1, Len(s) - 1)) + DigitVal(s[Len(s)])

\* dicts keep insertion order: a sequence of [k |-> key, v |-> value]
Keys(d) == {d[i].k : i \in 1..Len(d)}

Has(d, key) == \E i \in 1..Len(d) : d[i].k = key

Get(d, key) == d[CHOOSE i \in 1..Len(d) : d[i].k = key].v

\* d[key] = val: in place when the key is there, appended otherwise
Put(d, key, val) ==
    IF Has(d, key)
    THEN [i \in 1..Len(d) |-> IF d[i].k = key THEN [k |-> key, v |-> val] ELSE d[i]]
    ELSE Append(d, [k |-> key, v |-> val])

----------------------------------------------------------------------------
(* crew_tracking.py: extract_veld *)

\* the elif chain of extract_veld, in source order
VeldPatterns ==
    << <<"L","V","G","-","B">>, <<"V","G","-","B">>, <<"L","V","E">>,
       <<"L","V","G">>, <<"L","V","B">>, <<"V","E">>, <<"V","G">>, <<"V","B">>,
       <<"M","V","G","-","B">>, <<"M","G","-","B">>, <<"M","V","E">>,
       <<"M","V","G">>, <<"M","V","B">>, <<"M","E">>, <<"M","G">>, <<"M","B">> >>

UnknownStr == <<"U","n","k","n","o","w","n">>

OtherStr == <<"O","t","h","e","r">>

EmptyTokens == { <<>>, <<"n","a","n">>, <<"N","o","n","e">> }

extract_veld(v) ==
    IF v.t = "none" THEN UnknownStr
    ELSE LET veld_str == Strip(v.s)
             hits == {i \in 1..Len(VeldPatterns) : In(VeldPatterns[i], veld_str)}
         IN  IF hits # {}
             THEN VeldPatterns[CHOOSE i \in hits : \A j \in hits : i <= j]
             ELSE IF veld_str \in EmptyTokens THEN OtherStr ELSE veld_str


\* the raw labels the classifier is exercised on: every pattern, bare or followed
\* by a boat class, with or without surrounding text; labels no pattern matches;
\* the empty-equivalent tokens; and a missing value
BoatSuffixes == { <<>>, <<" ","2","x">>, <<" ","4","-">>, <<" ">> }

LabelPrefixes == { <<>>, <<" ">>, <<"D","e","v"," ">> }

PlainLabels ==
    { <<>>, <<" ">>, <<"n","a","n">>, <<"N","o","n","e">>, <<"O","p","e","n">>,
      <<"A">>, <<"U","n","k","n","o","w","n">> }

RawLabels ==
    {NoneV}
    \cup {Str(p \o VeldPatterns[i] \o b) :
            p \in LabelPrefixes, i \in 1..Len(VeldPatterns), b \in BoatSuffixes}
    \cup {Str(l) : l \in PlainLabels}

InitVeld ==
    /\ veld_value \in RawLabels /\ veld_result = <<>> /\ vpc = "start"
    /\ TrackIdle /\ LayIdle /\ SankIdle

\* one call of extract_veld
Classify ==
    /\ vpc = "start"
    /\ veld_result' = extract_veld(veld_value)
    /\ vpc' = "done"
    /\ UNCHANGED <<veld_value, trackVars, layVars, sankVars>>

----------------------------------------------------------------------------
(* data_processing.py: get_race_type and extract_race_numbers *)

\* s.split(sep)[0]
SplitFirst(s, sep) ==
    IF Find(sep, s) = 0 THEN s ELSE SubSeq(s, 1, Find(sep, s) - 1)

\* s.split(sep)[1]; ok is FALSE where Python raises IndexError
SplitSecond(s, sep) ==
    IF Find(sep, s) = 0 THEN [ok |-> FALSE, s |-> <<>>]
    ELSE LET rest == SubSeq(s, Find(sep, s) + Len(sep), Len(s))
         IN  [ok |-> TRUE, s |-> SplitFirst(rest, sep)]

\* s.split()[0] and s.split()[-1]; ok is FALSE where Python raises IndexError
RECURSIVE TakeWord(_)
TakeWord(s) ==
    IF s = <<>> \/ Head(s) = " " THEN <<>> ELSE <<Head(s)>> \o TakeWord(Tail(s))

RECURSIVE TakeLastWord(_)
TakeLastWord(s) ==
    IF s = <<>> \/ s[Len(s)] = " " THEN <<>>
    ELSE TakeLastWord(SubSeq(s, 1, Len(s) - 1)) \o <<s[Len(s)]>>

FirstToken(s) == [ok |-> Strip(s) # <<>>, s |-> TakeWord(Strip(s))]

LastToken(s) == [ok |-> Strip(s) # <<>>, s |-> TakeLastWord(Strip(s))]

\* int(tok) of a token without whitespace: an optional sign and digits
\* (ok is FALSE where Python raises ValueError)
ParseInt(tok) ==
    LET signed == tok # <<>> /\ Head(tok) \in {"+", "-"}
        body   == IF signed THEN Tail(tok) ELSE tok
        mag    == IF IsDigitStr(body) THEN DigitsToInt(body) ELSE 0
    IN  [ok |-> IsDigitStr(body),
         n  |-> IF signed /\ Head(tok) = "-" THEN 0 - mag ELSE mag]

W_voorwedstrijd == <<"v","o","o","r","w","e","d","s","t","r","i","j","d">>

W_challenge == <<"c","h","a","l","l","e","n","g","e">>

W_halve == <<"h","a","l","v","e">>

W_finale == <<"f","i","n","a","l","e">>

W_dashfinale == <<"-","f","i","n","a","l","e">>

RaceTypes == <<"voorwedstrijden", "challenges", "halve finales", "finales">>

get_race_type(race_name) ==
    LET race_name_lower == Lower(race_name)
    IN  IF In(W_voorwedstrijd, race_name_lower) THEN "voorwedstrijden"
        ELSE IF In(W_challenge, race_name_lower) THEN "challenges"
        ELSE IF In(W_halve, race_name_lower) /\ In(W_finale, race_name_lower)
             THEN "halve finales"
        ELSE IF In(W_finale, race_name_lower) THEN "finales"
        ELSE "other"

\* int(race_name.split(word)[1].strip().split()[0]), None on any exception
SubNumberAfter(race_name, word) ==
    LET part == SplitSecond(race_name, word)
        tok  == FirstToken(part.s)
        num  == ParseInt(tok.s)
    IN  IF part.ok /\ tok.ok /\ num.ok THEN IntV(num.n) ELSE NoneV

\* the race_sub_number of extract_race_numbers
extract_race_sub_number(race_name, race_type) ==
    LET low == Lower(race_name)
    IN  IF race_type = "voorwedstrijden" /\ In(W_voorwedstrijd, low)
        THEN SubNumberAfter(race_name, W_voorwedstrijd)
        ELSE IF race_type = "challenges" /\ In(W_challenge, low)
        THEN SubNumberAfter(race_name, W_challenge)
        ELSE IF race_type = "halve finales" /\ In(W_finale, low)
        THEN SubNumberAfter(race_name, W_finale)
        ELSE IF race_type = "finales" /\ In(W_finale, low) /\ In(W_dashfinale, low)
        THEN LET tok == LastToken(SplitFirst(race_name, W_dashfinale))
             IN  IF tok.ok THEN Str(tok.s) ELSE NoneV
        ELSE NoneV

----------------------------------------------------------------------------
(* crew_tracking.py: track_crew_progression_with_slag *)

\* stage_names, in the order of the dict
stage_names ==
    << [k |-> "voorwedstrijden", v |-> <<"V","o","o","r","w","e","d","s","t","r","i","j","d","e","n">>],
       [k |-> "challenges",      v |-> <<"C","h","a","l","l","e","n","g","e","s">>],
       [k |-> "halve finales",   v |-> <<"H","a","l","v","e"," ","F","i","n","a","l","e","s">>],
       [k |-> "finales",         v |-> <<"F","i","n","a","l","e","s">>] >>

StageIndex(race_type) == CHOOSE i \in 1..Len(stage_names) : stage_names[i].k = race_type

\* s.replace(' ', '_')
ReplaceSpaces(s) == [i \in 1..Len(s) |-> IF s[i] = " " THEN "_" ELSE s[i]]

\* consistent_crew_id: f"{crew_code}_{crew_member.replace(' ', '_')}" if crew_member
\* else crew_code (the value itself, which may be None)
consistent_crew_id(crew_code, crew_member) ==
    IF Truthy(crew_member)
    THEN Str(Format(crew_code) \o <<"_">> \o ReplaceSpaces(crew_member.s))
    ELSE crew_code

\* the stage identifier of one entry
stage_id_of(stage_name, race_sub_number) ==
    IF stage_name = Get(stage_names, "finales")
    THEN stage_name \o <<" ", "(">> \o Format(race_sub_number) \o <<")">>
    ELSE stage_name \o <<" ">> \o Format(race_sub_number)

\* a slip of the record update: the record is created anew on every entry
RecordStageFresh(prog, crew_id, entry, stage_name, stage_id) ==
    Put(prog, crew_id,
        [code |-> entry.code, ploeg |-> entry.ploeg, veld |-> extract_veld(entry.veld),
         crew_member |-> entry.crew_member,
         stages |-> <<[k |-> stage_name, v |-> stage_id]>>])

\* lines 100-115: create the record on first encounter, then set the stage entry
RecordStage(prog, crew_id, entry, stage_name, stage_id) ==
    LET with == IF Has(prog, crew_id) THEN prog
                ELSE Put(prog, crew_id,
                         [code |-> entry.code, ploeg |-> entry.ploeg,
                          veld |-> extract_veld(entry.veld),
                          crew_member |-> entry.crew_member, stages |-> <<>>])
        rec  == Get(with, crew_id)
    IN  Put(with, crew_id, [rec EXCEPT !.stages = Put(rec.stages, stage_name, stage_id)])

\* the loop body for one entry of one race (lines 86-115)
TrackOne(prog, race_type, entry) ==
    LET stage_name == Get(stage_names, race_type)
        crew_id    == consistent_crew_id(entry.code, entry.crew_member)
    IN  IF Truthy(entry.code) /\ Truthy(crew_id)
        THEN RecordStage(prog, crew_id, entry, stage_name,
                         stage_id_of(stage_name, entry.race_sub_number))
        ELSE prog

\* ---- the inputs of the tracker
MaxTrack == 3

TrackRaceNames ==
    { <<"v","o","o","r","w","e","d","s","t","r","i","j","d"," ","1">>,
      <<"v","o","o","r","w","e","d","s","t","r","i","j","d"," ","2">>,
      <<"c","h","a","l","l","e","n","g","e"," ","1">>,
      <<"h","a","l","v","e","-","A","B","C","-","f","i","n","a","l","e"," ","1">>,
      <<"h","a","l","v","e","-","D","E","F","G","-","f","i","n","a","l","e"," ","1">>,
      <<"A","-","f","i","n","a","l","e">> }

TrackCodes == { NoneV, Str(<<>>), Str(<<"1","1","7">>) }

TrackMembers == { Str(<<>>), Str(<<"J"," ","D">>) }

\* the races with what the ingestion derives from their names: the race type
\* (get_race_type) and the race_sub_number it stores in every entry of the race
\* (data_processing.py lines 78 and 123)
TrackRaces ==
    { [race_name |-> nm, race_type |-> get_race_type(nm),
       race_sub_number |-> extract_race_sub_number(nm, get_race_type(nm))]
      : nm \in TrackRaceNames }

\* the entries of a race
TrackEntries(race) ==
    { [code |-> c, crew_member |-> m, ploeg |-> Str(<<"N","e","r","e","u","s">>),
       veld |-> Str(<<"V","E"," ","2","x">>),
       race_sub_number |-> race.race_sub_number]
      : c \in TrackCodes, m \in TrackMembers }

InitTrack ==
    /\ crew_progression = <<>> /\ processed = <<>>
    /\ VeldIdle /\ LayIdle /\ SankIdle

\* the loops of lines 81-86 visit the stage types in stage_names order, the
\* races of a type one after the other, and a race's entries together
LoopOrder(race_type, race_name) ==
    IF processed = <<>> THEN TRUE
    ELSE LET last == processed[Len(processed)]
         IN  \/ StageIndex(race_type) > StageIndex(last.race_type)
             \/ /\ race_type = last.race_type
                /\ \/ race_name = last.race_name
                   \/ \A i \in 1..Len(processed) : processed[i].race_name # race_name

\* one iteration of the innermost loop
TrackEntry ==
    /\ Len(processed) < MaxTrack
    /\ \E race \in TrackRaces :
         \E entry \in TrackEntries(race) :
            /\ LoopOrder(race.race_type, race.race_name)
            /\ crew_progression' = TrackOne(crew_progression, race.race_type, entry)
            /\ processed' = Append(processed,
                                   [race_type |-> race.race_type,
                                    race_name |-> race.race_name, entry |-> entry])
    /\ UNCHANGED <<veldVars, layVars, sankVars>>

----------------------------------------------------------------------------
(* visualization.py: calc_positions (lines 450-462) *)

\* sum(counts[node] for node in nodes)
RECURSIVE SumCounts(_, _)
SumCounts(nodes, counts) ==
    IF nodes = <<>> THEN 0 ELSE Get(counts, Head(nodes)) + SumCounts(Tail(nodes), counts)

\* fractions <<numerator, denominator>> with a positive denominator
FracLeq(a, b) == a[1] * b[2] <= b[1] * a[2]

FracLess(a, b) == a[1] * b[2] < b[1] * a[2]

ClampLow == <<1, 1000>>

ClampHigh == <<999, 1000>>

\* a slip of the clamp: only the upper limit is applied
ClampUpperOnly(y_center) ==
    IF FracLess(ClampHigh, y_center) THEN ClampHigh ELSE y_center

\* max(0.001, min(0.999, y_center))
Clamp(y_center) ==
    LET upper == IF FracLess(ClampHigh, y_center) THEN ClampHigh ELSE y_center
    IN  IF FracLess(upper, ClampLow) THEN ClampLow ELSE upper

\* One iteration of the loop, for the node at index i: cumulative is the sum of
\* the counts before it. from and to are the values of cumulative before and
\* after the iteration; zero_div tells that the division was by a total of 0.
NodeY(nodes, counts, i) ==
    LET total      == SumCounts(nodes, counts)
        cumulative == SumCounts(SubSeq(nodes, 1, i - 1), counts)
        value      == Get(counts, nodes[i])
    IN  [zero_div |-> total = 0,
         y        |-> IF total = 0 THEN <<0, 1>>
                      ELSE Clamp(<<2 * cumulative + value, 2 * total>>),
         from     |-> cumulative,
         to       |-> cumulative + value]

\* positions, in the order of nodes
calc_positions(nodes, counts, x_pos) ==
    [i \in 1..Len(nodes) |->
        LET it == NodeY(nodes, counts, i)
        IN  [node |-> nodes[i], x |-> x_pos, y |-> it.y, zero_div |-> it.zero_div,
             from |-> it.from, to |-> it.to]]

\* ---- calc_positions on its own: a column of MaxColumn nodes at most, each
\* with a count the builder can give it (at least 1)
MaxColumn == 4

BigCount == 600

ColumnCounts == {1, 2, 3, BigCount}

InitLayout ==
    /\ \E len \in 0..MaxColumn :
         \E w \in [1..len -> ColumnCounts] :
            lay_counts = [i \in 1..len |-> [k |-> i, v |-> w[i]]]
    /\ lay_positions = <<>>
    /\ lpc = "start"
    /\ VeldIdle /\ TrackIdle /\ SankIdle

\* one call of calc_positions on the column
CalcPositions ==
    /\ lpc = "start"
    /\ lay_positions' =
          calc_positions([i \in 1..Len(lay_counts) |-> i], lay_counts, <<2, 100>>)
    /\ lpc' = "done"
    /\ UNCHANGED <<lay_counts, veldVars, trackVars, sankVars>>

----------------------------------------------------------------------------
(* visualization.py: detect_competition_format *)
(* all_race_data is a dict race type -> (dict race name -> list of entries); *)
(* an entry holds the keys the builder reads: veld, pos and pos_dot ('pos.') *)

FinaleLetterSet == {"A", "B", "C", "D", "E", "F", "G"}

W_DASHFINALE == <<"-","F","I","N","A","L","E">>

W_HALVEDASH == <<"H","A","L","V","E","-">>

\* re.search(r'([A-G])-finale', race_name, re.IGNORECASE): the index of the
\* leftmost match, 0 when there is none. A letter of the pattern matches the
\* characters of the same upper case: 'i' matches 'i', 'I' and U+0131.
FinaleMatchIndex(race_name) ==
    LET up   == Upper(race_name)
        hits == {i \in 1..Len(up) : up[i] \in FinaleLetterSet /\ MatchAt(W_DASHFINALE, up, i + 1)}
    IN  IF hits = {} THEN 0 ELSE CHOOSE i \in hits : \A j \in hits : i <= j

\* finale_match.group(1).upper()
FinaleLetterOf(race_name) == Upper(race_name)[FinaleMatchIndex(race_name)]

\* the length of the run of letters A-G of up that starts at index i
RECURSIVE LetterRun(_, _)
LetterRun(up, i) ==
    IF i <= Len(up) /\ up[i] \in FinaleLetterSet THEN 1 + LetterRun(up, i + 1) ELSE 0

\* re.search(r'halve-([A-G]+)-finale', race_name, re.IGNORECASE): group(1).upper()
\* of the leftmost match, <<>> when there is none. [A-G]+ cannot stop before the
\* end of the run of letters, as '-' has to follow it.
HalveGroupOf(race_name) ==
    LET up   == Upper(race_name)
        hits == {i \in 1..Len(up) :
                    /\ MatchAt(W_HALVEDASH, up, i)
                    /\ LetterRun(up, i + 6) >= 1
                    /\ MatchAt(W_DASHFINALE, up, i + 6 + LetterRun(up, i + 6))}
    IN  IF hits = {} THEN <<>>
        ELSE LET i == CHOOSE k \in hits : \A j \in hits : k <= j
             IN  SubSeq(up, i + 6, i + 5 + LetterRun(up, i + 6))

\* `veld and veld != 'Unknown'`
KnownVeld(veld) == Truthy(veld) /\ veld # Str(UnknownStr)

\* the races of all race types, in the order of the loops of lines 36-37
RECURSIVE AllRaces(_)
AllRaces(data) == IF data = <<>> THEN <<>> ELSE Head(data).v \o AllRaces(Tail(data))

\* veld_categories (lines 31-41)
VeldCategories(data) ==
    LET races == AllRaces(data)
    IN  UNION { {races[r].v[e].veld.s :
                    e \in {x \in 1..Len(races[r].v) : KnownVeld(races[r].v[x].veld)}}
                : r \in 1..Len(races) }

\* the races whose name passes the test of line 44
FinaleNamed(data) ==
    LET races == AllRaces(data)
    IN  {races[r].k : r \in {x \in 1..Len(races) : In(W_finale, Lower(races[x].k))}}

\* finale_letters (lines 46-48)
FinaleLetters(data) ==
    {FinaleLetterOf(nm) : nm \in {x \in FinaleNamed(data) : FinaleMatchIndex(x) # 0}}

\* halve_finale_groups (lines 51-53)
HalveFinaleGroups(data) ==
    {HalveGroupOf(nm) : nm \in {x \in FinaleNamed(data) : HalveGroupOf(x) # <<>>}}

B_2x == <<"2","x">>

B_4min == <<"4","-">>

B_4plus == <<"4","+">>

B_8plus == <<"8","+">>

\* boat_classes (lines 59-68)
BoatClasses(veld_list) ==
    { IF In(B_2x, veld_list[i]) THEN B_2x
      ELSE IF In(B_4min, veld_list[i]) THEN B_4min
      ELSE IF In(B_4plus, veld_list[i]) THEN B_4plus ELSE B_8plus
      : i \in {x \in 1..Len(veld_list) :
                 \/ In(B_2x, veld_list[x]) \/ In(B_4min, veld_list[x])
                 \/ In(B_4plus, veld_list[x]) \/ In(B_8plus, veld_list[x])} }

\* the body of the loop of lines 72-105 for one veld
PrefixStep(pp, veld) ==
    LET notL == ~StartsWith(veld, <<"L">>)
        p1 == IF In(<<"E">>, veld) /\ notL
              THEN IF StartsWith(veld, <<"V","E">>) THEN Put(pp, "E", <<"V">>)
                   ELSE IF StartsWith(veld, <<"M","E">>) THEN Put(pp, "E", <<"M">>) ELSE pp
              ELSE pp
        p2 == IF In(<<"G">>, veld) /\ notL
              THEN IF StartsWith(veld, <<"V","G">>) THEN Put(p1, "G", <<"V">>)
                   ELSE IF StartsWith(veld, <<"M","G">>) THEN Put(p1, "G", <<"M">>) ELSE p1
              ELSE p1
        p3 == IF In(<<"B">>, veld) /\ notL /\ ~In(<<"G","-","B">>, veld)
              THEN IF StartsWith(veld, <<"V","B">>) THEN Put(p2, "B", <<"V">>)
                   ELSE IF StartsWith(veld, <<"M","B">>) THEN Put(p2, "B", <<"M">>) ELSE p2
              ELSE p2
        p4 == IF In(<<"L","V","E">>, veld) THEN Put(p3, "LE", <<"L","V">>)
              ELSE IF In(<<"L","M","E">>, veld) THEN Put(p3, "LE", <<"L","M">>) ELSE p3
        p5 == IF In(<<"L","V","G">>, veld) THEN Put(p4, "LG", <<"L","V">>)
              ELSE IF In(<<"L","M","G">>, veld) THEN Put(p4, "LG", <<"L","M">>) ELSE p4
    IN  IF In(<<"L","V","B">>, veld) THEN Put(p5, "LB", <<"L","V">>)
        ELSE IF In(<<"L","M","B">>, veld) THEN Put(p5, "LB", <<"L","M">>) ELSE p5

\* prefix_patterns (lines 71-105)
RECURSIVE PrefixPatterns(_, _)
PrefixPatterns(pp, veld_list) ==
    IF veld_list = <<>> THEN pp
    ELSE PrefixPatterns(PrefixStep(pp, Head(veld_list)), Tail(veld_list))

\* d.get(key, default)
GetOr(d, key, default) == IF Has(d, key) THEN Get(d, key) ELSE default

\* base_order (lines 109-124)
BaseOrder(prefix_patterns, boat_class) ==
    LET main_prefix == GetOr(prefix_patterns, "E", <<"V">>)
        l_prefix    == GetOr(prefix_patterns, "LG", <<"L","V">>)
        le_prefix   == GetOr(prefix_patterns, "LE", <<"L","V">>)
        lb_prefix   == GetOr(prefix_patterns, "LB", <<"L","V">>)
        tail        == <<" ">> \o boat_class
    IN  << main_prefix \o <<"E">> \o tail,
           main_prefix \o <<"G">> \o tail,
           main_prefix \o <<"G","-","B">> \o tail,
           main_prefix \o <<"B">> \o tail,
           le_prefix \o <<"E">> \o tail,
           l_prefix \o <<"G">> \o tail,
           l_prefix \o <<"G","-","B">> \o tail,
           lb_prefix \o <<"B">> \o tail >>

\* a slip of lines 129-130: every category is appended after the template's
RemainingAll(veld_list, veld_order) == veld_list

\* remaining (line 129); veld_list is sorted, and sorted again on line 130
Remaining(veld_list, veld_order) ==
    SortedStrs(Range(SelectSeqBy(veld_list, Range(veld_list) \ Range(veld_order))))

\* veld_order (lines 127-130)
VeldOrder(veld_categories, base_order) ==
    LET veld_list == SortedStrs(veld_categories)
        matched   == SelectSeqBy(base_order, veld_categories)
    IN  matched \o Remaining(veld_list, matched)

G_ABC == <<"A","B","C">>

G_DEFG == <<"D","E","F","G">>

G_DE == <<"D","E">>

\* halve_groups (lines 136-146)
HalveGroups(halve_finale_groups, finale_list) ==
    IF halve_finale_groups # {} THEN SortedStrs(halve_finale_groups)
    ELSE IF Len(finale_list) <= 3 THEN <<G_ABC>>
    ELSE IF Len(finale_list) <= 4 THEN <<G_ABC, G_DE>>
    ELSE <<G_ABC, G_DEFG>>

\* the values list(boat_classes)[0] can take: the set is a set of str, whose
\* iteration order follows the interpreter's per-process string hashing;
\* '2x' when the set is empty (line 108)
BoatClassChoices(data) ==
    LET classes == BoatClasses(SortedStrs(VeldCategories(data)))
    IN  IF classes = {} THEN {B_2x} ELSE classes

\* the config returned, given the element that list(boat_classes)[0] produced
detect_competition_format(data, boat_class) ==
    LET veld_categories == VeldCategories(data)
        veld_list       == SortedStrs(veld_categories)
        prefix_patterns == PrefixPatterns(<<>>, veld_list)
        finale_list     == SortedStrs({<<l>> : l \in FinaleLetters(data)})
    IN  [veld_order          |-> VeldOrder(veld_categories,
                                           BaseOrder(prefix_patterns, boat_class)),
         boat_class          |-> boat_class,
         finale_letters      |-> finale_list,
         halve_finale_groups |-> HalveGroups(HalveFinaleGroups(data), finale_list),
         prefix_patterns     |-> prefix_patterns]

----------------------------------------------------------------------------
(* visualization.py: create_four_column_cumulative_sankey, the three passes *)

W_Veld == <<"V","e","l","d">>

W_Finale == <<"F","i","n","a","l","e">>

W_Eindklassering == <<"E","i","n","d","k","l","a","s","s","e","r","i","n","g">>

G_OTHER == <<"O","T","H","E","R">>

G_FG == <<"F","G">>

\* f"Veld {veld}", f"{group}_{veld}", f"Finale {letter}",
\* f"Eindklassering {final_position} ({veld})"
VeldNode(veld) == W_Veld \o <<" ">> \o veld

PoolNode(group, veld) == group \o <<"_">> \o veld

FinaleNode(letter) == W_Finale \o <<" ">> \o <<letter>>

RankNode(final_position, veld) ==
    W_Eindklassering \o <<" ">> \o IntToStr(final_position) \o <<" ", "(">> \o veld \o <<")">>

\* the first element of a list of str that occurs in s, <<>> when none does
RECURSIVE FirstContained(_, _)
FirstContained(groups, s) ==
    IF groups = <<>> THEN <<>>
    ELSE IF In(Head(groups), s) THEN Head(groups) ELSE FirstContained(Tail(groups), s)

\* lines 218-237
create_adaptive_halve_finale_groups(race_name, cfg) ==
    LET race_upper == Upper(race_name)
        found      == FirstContained(cfg.halve_finale_groups, race_upper)
    IN  IF \E i \in 1..Len(cfg.halve_finale_groups) : In(cfg.halve_finale_groups[i], race_upper)
        THEN found
        ELSE IF In(G_ABC, race_upper) THEN G_ABC
        ELSE IF In(G_DEFG, race_upper) THEN G_DEFG
        ELSE IF In(G_DE, race_upper) THEN G_DE
        ELSE G_OTHER

\* lines 240-267; finale_letter is already upper case
get_finale_group_from_letter(finale_letter, cfg) ==
    LET groups == Range(cfg.halve_finale_groups)
    IN  IF G_ABC \in groups /\ finale_letter \in {"A", "B", "C"} THEN G_ABC
        ELSE IF G_DEFG \in groups /\ finale_letter \in {"D", "E", "F", "G"} THEN G_DEFG
        ELSE IF G_DE \in groups /\ finale_letter \in {"D", "E"} THEN G_DE
        ELSE IF finale_letter \in {"A", "B", "C"} THEN G_ABC
        ELSE IF finale_letter \in {"D", "E"} THEN G_DE
        ELSE IF finale_letter \in {"F", "G"} THEN G_FG
        ELSE G_OTHER

\* a slip of lines 304-306: only the source's count is incremented
EmitSourceOnly(st, source, target, value) ==
    [flows       |-> Append(st.flows, [source |-> source, target |-> target,
                                       value |-> value]),
     node_counts |-> Put(st.node_counts, source, GetOr(st.node_counts, source, 0) + value)]

\* the state of the passes: flows and node_counts
\* flows.append((source, target, value)); node_counts[source] += value;
\* node_counts[target] += value
Emit(st, source, target, value) ==
    LET c1 == Put(st.node_counts, source, GetOr(st.node_counts, source, 0) + value)
    IN  [flows       |-> Append(st.flows, [source |-> source, target |-> target,
                                            value |-> value]),
         node_counts |-> Put(c1, target, GetOr(c1, target, 0) + value)]

\* all_race_data[race_type] when the key is there, no races otherwise
RacesOf(data, race_type) == GetOr(data, race_type, <<>>)

\* ---- pass 1, veld -> halve finale node (lines 290-306)
RECURSIVE HalveEntries(_, _, _)
HalveEntries(st, halve_group, crew_entries) ==
    IF crew_entries = <<>> THEN st
    ELSE LET veld == Head(crew_entries).veld
         IN  HalveEntries(IF KnownVeld(veld)
                          THEN Emit(st, VeldNode(veld.s), PoolNode(halve_group, veld.s), 1)
                          ELSE st,
                          halve_group, Tail(crew_entries))

RECURSIVE HalveRaces(_, _, _)
HalveRaces(st, races, cfg) ==
    IF races = <<>> THEN st
    ELSE HalveRaces(HalveEntries(st,
                                 create_adaptive_halve_finale_groups(Head(races).k, cfg),
                                 Head(races).v),
                    Tail(races), cfg)

\* ---- pass 2, halve finale node -> finale (lines 309-338)
\* veld_counts of one finale, in insertion order
RECURSIVE VeldCounts(_, _)
VeldCounts(counts, crew_entries) ==
    IF crew_entries = <<>> THEN counts
    ELSE LET veld == Head(crew_entries).veld
         IN  VeldCounts(IF KnownVeld(veld)
                        THEN Put(counts, veld.s, GetOr(counts, veld.s, 0) + 1)
                        ELSE counts,
                        Tail(crew_entries))

RECURSIVE FinaleFlows(_, _, _, _)
FinaleFlows(st, veld_counts, finale_group, target) ==
    IF veld_counts = <<>> THEN st
    ELSE FinaleFlows(Emit(st, PoolNode(finale_group, Head(veld_counts).k), target,
                          Head(veld_counts).v),
                     Tail(veld_counts), finale_group, target)

RECURSIVE FinaleRaces(_, _, _)
FinaleRaces(st, races, cfg) ==
    IF races = <<>> THEN st
    ELSE LET race_name == Head(races).k
         IN  FinaleRaces(IF FinaleMatchIndex(race_name) = 0 THEN st
                         ELSE FinaleFlows(st, VeldCounts(<<>>, Head(races).v),
                                          get_finale_group_from_letter(
                                              FinaleLetterOf(race_name), cfg),
                                          FinaleNode(FinaleLetterOf(race_name))),
                         Tail(races), cfg)

\* ---- pass 3, finale -> final position (lines 341-383)
PositionsPerFinale == 6

InvalidPosition == 999

\* finale_position_offsets.get(finale_letter, 0) (lines 345-349, 361)
PositionOffset(finale_letter, cfg) ==
    LET sorted_letters == SortedStrs(Range(cfg.finale_letters))
        at == {i \in 1..Len(sorted_letters) : sorted_letters[i] = <<finale_letter>>}
    IN  IF at = {} THEN 0 ELSE PositionsPerFinale * ((CHOOSE i \in at : TRUE) - 1)

\* get_position (lines 364-371): entry.get('pos', '') or entry.get('pos.', '');
\* an absent key and a None value end the same way (falsy, then 999)
get_position(entry) ==
    LET pos == IF Truthy(entry.pos) THEN entry.pos ELSE entry.pos_dot
    IN  IF pos.t = "int" THEN pos.n
        ELSE IF pos.t = "str" /\ IsDigitStr(pos.s) THEN DigitsToInt(pos.s)
        ELSE InvalidPosition

\* the order sorted(items, key=...) puts the items in: the indices of keys,
\* smallest key first, equal keys in input order (the sort is stable)
RECURSIVE SortedIdx(_)
SortedIdx(keys) ==
    IF keys = <<>> THEN <<>>
    ELSE LET n     == Len(keys)
             front == SortedIdx(SubSeq(keys, 1, n - 1))
             \* the last item goes behind every item whose key is not greater
             cut   == Cardinality({i \in 1..(n - 1) : keys[i] <= keys[n]})
         IN  SubSeq(front, 1, cut) \o <<n>> \o SubSeq(front, cut + 1, n - 1)

\* sorted(items, key=...): stable; keys[i] is the key of items[i]
SortedByKeys(items, keys) ==
    LET idx == SortedIdx(keys)
    IN  [i \in 1..Len(items) |-> items[idx[i]]]

\* a slip of line 373: the entries are taken in input order
SortedEntriesUnsorted(crew_entries) == crew_entries

\* sorted_entries (line 373)
SortedEntries(crew_entries) ==
    SortedByKeys(crew_entries, [i \in 1..Len(crew_entries) |-> get_position(crew_entries[i])])

\* the loop of lines 376-383 from index i (1-based) on
RECURSIVE RankFlows(_, _, _, _, _)
RankFlows(st, sorted_entries, i, position_offset, source) ==
    IF i > Len(sorted_entries) THEN st
    ELSE LET veld == sorted_entries[i].veld
         IN  RankFlows(IF KnownVeld(veld)
                       THEN Emit(st, source, RankNode(position_offset + (i - 1) + 1, veld.s), 1)
                       ELSE st,
                       sorted_entries, i + 1, position_offset, source)

RECURSIVE PositionRaces(_, _, _)
PositionRaces(st, races, cfg) ==
    IF races = <<>> THEN st
    ELSE LET race_name == Head(races).k
         IN  PositionRaces(IF FinaleMatchIndex(race_name) = 0 THEN st
                           ELSE RankFlows(st, SortedEntries(Head(races).v), 1,
                                          PositionOffset(FinaleLetterOf(race_name), cfg),
                                          FinaleNode(FinaleLetterOf(race_name))),
                           Tail(races), cfg)

----------------------------------------------------------------------------
(* create_four_column_cumulative_sankey: node order, positions, links *)

\* the keys of a dict, in insertion order
KeyList(d) == [i \in 1..Len(d) |-> d[i].k]

\* [x for x in q if Test(x)], for q given with the indices that pass the test
RECURSIVE PickIndices(_, _, _)
PickIndices(q, i, pass) ==
    IF i > Len(q) THEN <<>>
    ELSE (IF i \in pass THEN <<q[i]>> ELSE <<>>) \o PickIndices(q, i + 1, pass)

\* col1_nodes (line 393)
Col1Nodes(cfg, counts) ==
    LET named == [i \in 1..Len(cfg.veld_order) |-> VeldNode(cfg.veld_order[i])]
    IN  SelectSeqBy(named, Keys(counts))

\* the test of line 403
IsHalveNode(node) ==
    /\ In(<<"_">>, node)
    /\ ~StartsWith(node, W_Eindklassering)
    /\ ~StartsWith(node, W_Veld)

\* the group a node is appended to (lines 405-409), <<>> for other_nodes
GroupOfNode(node, cfg) ==
    LET hits == {i \in 1..Len(cfg.halve_finale_groups) :
                    StartsWith(node, cfg.halve_finale_groups[i] \o <<"_">>)}
    IN  IF hits = {} THEN <<>>
        ELSE cfg.halve_finale_groups[CHOOSE i \in hits : \A j \in hits : i <= j]

\* get_veld_priority (lines 416-420)
get_veld_priority(node, cfg) ==
    LET hits == {i \in 1..Len(cfg.veld_order) : In(cfg.veld_order[i], node)}
    IN  IF hits = {} THEN 999 ELSE (CHOOSE i \in hits : \A j \in hits : i <= j) - 1

\* sort_by_veld (lines 414-421)
sort_by_veld(node_list, cfg) ==
    SortedByKeys(node_list, [i \in 1..Len(node_list) |-> get_veld_priority(node_list[i], cfg)])

\* lines 424-426, for the groups from index i of the sorted list on
RECURSIVE GroupedNodes(_, _, _, _)
GroupedNodes(sorted_groups, i, halve_nodes, cfg) ==
    IF i > Len(sorted_groups) THEN <<>>
    ELSE sort_by_veld(PickIndices(halve_nodes, 1,
                                  {x \in 1..Len(halve_nodes) :
                                      GroupOfNode(halve_nodes[x], cfg) = sorted_groups[i]}),
                      cfg)
         \o GroupedNodes(sorted_groups, i + 1, halve_nodes, cfg)

\* col2_nodes (lines 396-427)
Col2Nodes(cfg, counts) ==
    LET keys        == KeyList(counts)
        halve_nodes == PickIndices(keys, 1, {x \in 1..Len(keys) : IsHalveNode(keys[x])})
        other_nodes == PickIndices(halve_nodes, 1,
                                   {x \in 1..Len(halve_nodes) :
                                       GroupOfNode(halve_nodes[x], cfg) = <<>>})
    IN  GroupedNodes(SortedStrs(Range(cfg.halve_finale_groups)), 1, halve_nodes, cfg)
        \o sort_by_veld(other_nodes, cfg)

\* col3_nodes (lines 430-431)
Col3Nodes(cfg, counts) ==
    LET letters      == SortedStrs(Range(cfg.finale_letters))
        finale_order == [i \in 1..Len(letters) |-> W_Finale \o <<" ">> \o letters[i]]
    IN  SelectSeqBy(finale_order, Keys(counts))

\* s.split(' ')[0]
UpToSpace(s) == SplitFirst(s, <<" ">>)

\* get_position_number (lines 437-441)
get_position_number(node) ==
    LET part == SplitSecond(node, W_Eindklassering \o <<" ">>)
        num  == ParseInt(UpToSpace(part.s))
    IN  IF part.ok /\ num.ok THEN num.n ELSE 999

\* col4_nodes (lines 434-442)
Col4Nodes(counts) ==
    LET keys           == KeyList(counts)
        position_nodes == PickIndices(keys, 1,
                              {x \in 1..Len(keys) : StartsWith(keys[x], W_Eindklassering)})
    IN  SortedByKeys(position_nodes,
                     [i \in 1..Len(position_nodes) |-> get_position_number(position_nodes[i])])

\* the x of the four columns (lines 464-467), in hundredths
ColumnX == <<2, 35, 65, 98>>

\* {**col1_positions, **col2_positions, **col3_positions, **col4_positions}
RECURSIVE PutAll(_, _)
PutAll(d, items) ==
    IF items = <<>> THEN d
    ELSE PutAll(Put(d, Head(items).node,
                    [x |-> Head(items).x, y |-> Head(items).y]), Tail(items))

AllPositions(cols, counts) ==
    PutAll(PutAll(PutAll(PutAll(<<>>,
        calc_positions(cols[1], counts, <<ColumnX[1], 100>>)),
        calc_positions(cols[2], counts, <<ColumnX[2], 100>>)),
        calc_positions(cols[3], counts, <<ColumnX[3], 100>>)),
        calc_positions(cols[4], counts, <<ColumnX[4], 100>>))

\* all_nodes (line 489)
AllNodes(cols) == cols[1] \o cols[2] \o cols[3] \o cols[4]

\* node_x and node_y (lines 493-494), with the node they belong to
NodePositions(cols, counts) ==
    LET all_nodes == AllNodes(cols)
        all_pos   == AllPositions(cols, counts)
    IN  [i \in 1..Len(all_nodes) |->
            [node |-> all_nodes[i], x |-> Get(all_pos, all_nodes[i]).x,
             y |-> Get(all_pos, all_nodes[i]).y]]

\* node_to_index[node] (line 490): the last index wins in a dict comprehension
NodeToIndex(all_nodes, node) ==
    (CHOOSE i \in 1..Len(all_nodes) :
        all_nodes[i] = node /\ \A j \in (i + 1)..Len(all_nodes) : all_nodes[j] # node) - 1

\* a slip of line 566: the value is assigned, not added
AddFlowAssign(flow_dict, flow) ==
    Put(flow_dict, <<flow.source, flow.target>>, flow.value)

\* flow_dict[(source, target)] += value (line 566)
AddFlow(flow_dict, flow) ==
    Put(flow_dict, <<flow.source, flow.target>>,
        GetOr(flow_dict, <<flow.source, flow.target>>, 0) + flow.value)

\* flow_dict (lines 563-566)
RECURSIVE FlowDict(_, _, _)
FlowDict(flow_dict, flow_list, all_nodes) ==
    IF flow_list = <<>> THEN flow_dict
    ELSE FlowDict(IF Head(flow_list).source \in Range(all_nodes)
                     /\ Head(flow_list).target \in Range(all_nodes)
                  THEN AddFlow(flow_dict, Head(flow_list))
                  ELSE flow_dict,
                  Tail(flow_list), all_nodes)

\* link_sources, link_targets, link_values (lines 568-570), one record per link
LinkList(flow_list, all_nodes) ==
    LET flow_dict == FlowDict(<<>>, flow_list, all_nodes)
    IN  [i \in 1..Len(flow_dict) |->
            [source |-> flow_dict[i].k[1], target |-> flow_dict[i].k[2],
             source_index |-> NodeToIndex(all_nodes, flow_dict[i].k[1]),
             target_index |-> NodeToIndex(all_nodes, flow_dict[i].k[2]),
             value |-> flow_dict[i].v]]

----------------------------------------------------------------------------
(* visualization.py: get_adaptive_colors, and the labels and colours of the *)
(* nodes in create_four_column_cumulative_sankey                            *)

\* the colours of lines 174-183 that get_adaptive_colors hands out
Colors ==
    [red_bright |-> "#E74C3C", blue_bright |-> "#3498DB", orange_bright |-> "#FF8C00",
     green_bright |-> "#00FF7F", hot_pink |-> "#FF1493", brown |-> "#8B4513",
     red_dark |-> "#8B0000", gray |-> "#95A5A6"]

\* the branch of lines 195-213 for one veld
AdaptiveColor(veld, cfg) ==
    LET main_prefix == GetOr(cfg.prefix_patterns, "E", <<"V">>)
        l_prefix    == GetOr(cfg.prefix_patterns, "LG", <<"L","V">>)
        le_prefix   == GetOr(cfg.prefix_patterns, "LE", <<"L","V">>)
        lb_prefix   == GetOr(cfg.prefix_patterns, "LB", <<"L","V">>)
        tail        == <<" ">> \o cfg.boat_class
    IN  IF veld = le_prefix \o <<"E">> \o tail THEN Colors.red_dark
        ELSE IF veld = l_prefix \o <<"G","-","B">> \o tail THEN Colors.hot_pink
        ELSE IF veld = l_prefix \o <<"G">> \o tail THEN Colors.green_bright
        ELSE IF veld = lb_prefix \o <<"B">> \o tail THEN Colors.brown
        ELSE IF veld = main_prefix \o <<"E">> \o tail THEN Colors.red_bright
        ELSE IF veld = main_prefix \o <<"G","-","B">> \o tail THEN Colors.orange_bright
        ELSE IF veld = main_prefix \o <<"G">> \o tail THEN Colors.blue_bright
        ELSE Colors.gray

\* veld_colors (lines 191-215), a dict in veld_order's order
get_adaptive_colors(cfg) ==
    [i \in 1..Len(cfg.veld_order) |->
        [k |-> cfg.veld_order[i], v |-> AdaptiveColor(cfg.veld_order[i], cfg)]]

\* any(node.startswith(f'{group}_') for group in config['halve_finale_groups'])
\* (lines 501-504 and 529)
StartsWithGroup(node, cfg) ==
    \E i \in 1..Len(cfg.halve_finale_groups) :
        StartsWith(node, cfg.halve_finale_groups[i] \o <<"_">>)

\* node_labels (lines 497-509)
NodeLabels(all_nodes, cfg) ==
    [i \in 1..Len(all_nodes) |->
        IF StartsWithGroup(all_nodes[i], cfg) THEN <<>> ELSE all_nodes[i]]

\* the inner extract_veld (lines 516-523); <<>> stands for None
NodeVeld(node_str, cfg) ==
    LET sorted_velds == SortedByKeys(cfg.veld_order,
                            [i \in 1..Len(cfg.veld_order) |-> 0 - Len(cfg.veld_order[i])])
        hits == {i \in 1..Len(sorted_velds) :
                    \/ In(<<" ">> \o sorted_velds[i], node_str)
                    \/ EndsWith(node_str, sorted_velds[i])
                    \/ In(<<"(">> \o sorted_velds[i] \o <<")">>, node_str)}
    IN  IF hits = {} THEN <<>>
        ELSE sorted_velds[CHOOSE i \in hits : \A j \in hits : i <= j]

\* node_colors (lines 512-540)
NodeColors(all_nodes, cfg) ==
    LET veld_colors   == get_adaptive_colors(cfg)
        OfVeld(node)  == GetOr(veld_colors, NodeVeld(node, cfg), Colors.gray)
    IN  [i \in 1..Len(all_nodes) |->
            IF StartsWith(all_nodes[i], W_Veld) THEN OfVeld(all_nodes[i])
            ELSE IF StartsWithGroup(all_nodes[i], cfg) THEN OfVeld(all_nodes[i])
            ELSE IF StartsWith(all_nodes[i], W_Finale) THEN Colors.gray
            ELSE IF StartsWith(all_nodes[i], W_Eindklassering) THEN OfVeld(all_nodes[i])
            ELSE Colors.gray]

----------------------------------------------------------------------------
(* The pipeline as a state machine: one run of detect_competition_format and *)
(* create_four_column_cumulative_sankey, step by step, and a second run on   *)
(* the same input                                                            *)

\* ---- the inputs: MaxEntries entries at most in the whole dataset, spread over
\* the races of RaceSlots; the entries' velds come from one of VeldPools
MaxEntries == 4

RaceSlots ==
    << [race_type |-> "halve finales",
        race_name |-> <<"h","a","l","v","e","-","A","B","C","-","f","i","n","a","l","e"," ","1">>],
       [race_type |-> "halve finales",
        race_name |-> <<"h","a","l","v","e","-","A","B","C","-","f","i","n","a","l","e"," ","2">>],
       [race_type |-> "halve finales",
        race_name |-> <<"h","a","l","v","e","-","D","E","F","G","-","f","i","n","a","l","e"," ","1">>],
       [race_type |-> "finales", race_name |-> <<"A","-","f","i","n","a","l","e">>],
       [race_type |-> "finales", race_name |-> <<"D","-","f","i","n","a","l","e">>] >>

VeldPools ==
    { {Str(<<"A">>), Str(<<"B">>)},
      {Str(<<"V","E"," ","2","x">>), Str(<<"V","G"," ","4","-">>)},
      {Str(<<"V","G"," ","2","x">>), Str(<<"L","V","G"," ","2","x">>)},
      {Str(<<"M","E"," ","4","-">>), Str(UnknownStr)} }

\* how the positions of a race's entries are written: in input order as ints,
\* or in reverse order as strings of digits
PosPatterns == {"int ascending", "str descending"}

RECURSIVE SumTo(_, _)
SumTo(f, n) == IF n = 0 THEN 0 ELSE f[n] + SumTo(f, n - 1)

\* the entries of slot s: the size[s] velds that follow those of the slots before
SlotEntries(size, velds, pattern, s) ==
    [j \in 1..size[s] |->
        [veld    |-> velds[SumTo(size, s - 1) + j],
         pos     |-> NoneV,
         pos_dot |-> IF pattern = "int ascending" THEN IntV(j)
                     ELSE Str(IntToStr(size[s] - j + 1))]]

\* the races of one race type, those without entries left out
RECURSIVE SlotRaces(_, _, _, _, _)
SlotRaces(race_type, size, velds, pattern, s) ==
    IF s > Len(RaceSlots) THEN <<>>
    ELSE (IF RaceSlots[s].race_type = race_type /\ size[s] > 0
          THEN <<[k |-> RaceSlots[s].race_name, v |-> SlotEntries(size, velds, pattern, s)]>>
          ELSE <<>>)
         \o SlotRaces(race_type, size, velds, pattern, s + 1)

Dataset(size, velds, pattern) ==
    << [k |-> "halve finales",   v |-> SlotRaces("halve finales", size, velds, pattern, 1)],
       [k |-> "finales",         v |-> SlotRaces("finales", size, velds, pattern, 1)] >>

\* the state before a run on a dataset of max_entries entries at most
InitWith(max_entries) ==
    /\ \E size \in [1..Len(RaceSlots) -> 0..max_entries] :
          /\ SumTo(size, Len(RaceSlots)) <= max_entries
          /\ \E pool \in VeldPools :
                \E velds \in [1..SumTo(size, Len(RaceSlots)) -> pool] :
                   \E pattern \in PosPatterns :
                      all_race_data = Dataset(size, velds, pattern)
    /\ pc = "detect"
    /\ config = <<>> /\ flows = <<>> /\ node_counts = <<>> /\ columns = <<>>
    /\ positions = <<>> /\ links = <<>>
    /\ node_labels = <<>> /\ node_colors = <<>>
    /\ run = 1 /\ first_output = <<>>
    /\ VeldIdle /\ TrackIdle /\ LayIdle

Init == InitWith(MaxEntries)

\* the graph description handed to the renderer, with the configuration
Output ==
    [config |-> config, all_nodes |-> AllNodes(columns), positions |-> positions,
     node_labels |-> node_labels, node_colors |-> node_colors, links |-> links]

\* Step 0 (line 282)
Detect ==
    /\ pc = "detect"
    /\ \E boat_class \in BoatClassChoices(all_race_data) :
          config' = detect_competition_format(all_race_data, boat_class)
    /\ pc' = "halve"
    /\ UNCHANGED <<all_race_data, flows, node_counts, columns, positions, links,
                   run, first_output,
                   node_labels, node_colors, veldVars, trackVars, layVars>>

\* lines 286-306
PassHalve ==
    /\ pc = "halve"
    /\ LET st == HalveRaces([flows |-> <<>>, node_counts |-> <<>>],
                            RacesOf(all_race_data, "halve finales"), config)
       IN  flows' = st.flows /\ node_counts' = st.node_counts
    /\ pc' = "finales"
    /\ UNCHANGED <<all_race_data, config, columns, positions, links,
                   run, first_output,
                   node_labels, node_colors, veldVars, trackVars, layVars>>

\* lines 309-338
PassFinales ==
    /\ pc = "finales"
    /\ LET st == FinaleRaces([flows |-> flows, node_counts |-> node_counts],
                             RacesOf(all_race_data, "finales"), config)
       IN  flows' = st.flows /\ node_counts' = st.node_counts
    /\ pc' = "positions"
    /\ UNCHANGED <<all_race_data, config, columns, positions, links,
                   run, first_output,
                   node_labels, node_colors, veldVars, trackVars, layVars>>

\* lines 341-383
PassPositions ==
    /\ pc = "positions"
    /\ LET st == PositionRaces([flows |-> flows, node_counts |-> node_counts],
                               RacesOf(all_race_data, "finales"), config)
       IN  flows' = st.flows /\ node_counts' = st.node_counts
    /\ pc' = "columns"
    /\ UNCHANGED <<all_race_data, config, columns, positions, links,
                   run, first_output,
                   node_labels, node_colors, veldVars, trackVars, layVars>>

\* lines 391-442
OrderNodes ==
    /\ pc = "columns"
    /\ columns' = << Col1Nodes(config, node_counts), Col2Nodes(config, node_counts),
                     Col3Nodes(config, node_counts), Col4Nodes(node_counts) >>
    /\ pc' = "layout"
    /\ UNCHANGED <<all_race_data, config, flows, node_counts, positions, links,
                   run, first_output,
                   node_labels, node_colors, veldVars, trackVars, layVars>>

\* lines 449-494
Layout ==
    /\ pc = "layout"
    /\ positions' = NodePositions(columns, node_counts)
    /\ pc' = "links"
    /\ UNCHANGED <<all_race_data, config, flows, node_counts, columns, links,
                   run, first_output,
                   node_labels, node_colors, veldVars, trackVars, layVars>>

\* lines 496-570: the labels and colours of the nodes, then the links
Links ==
    /\ pc = "links"
    /\ node_labels' = NodeLabels(AllNodes(columns), config)
    /\ node_colors' = NodeColors(AllNodes(columns), config)
    /\ links' = LinkList(flows, AllNodes(columns))
    /\ pc' = "done"
    /\ UNCHANGED <<all_race_data, config, flows, node_counts, columns, positions,
                   run, first_output, veldVars, trackVars, layVars>>

\* the pipeline is run again on the same input, in a new interpreter
RunAgain ==
    /\ pc = "done" /\ run = 1
    /\ first_output' = Output
    /\ run' = 2
    /\ pc' = "detect"
    /\ config' = <<>> /\ flows' = <<>> /\ node_counts' = <<>> /\ columns' = <<>>
    /\ positions' = <<>> /\ links' = <<>>
    /\ node_labels' = <<>> /\ node_colors' = <<>>
    /\ UNCHANGED <<all_race_data, veldVars, trackVars, layVars>>

Next ==
    \/ Detect \/ PassHalve \/ PassFinales \/ PassPositions
    \/ OrderNodes \/ Layout \/ Links

Spec == Init /\ [][Next]_vars

\* two runs on the same dataset, of MaxEntriesTwice entries at most
MaxEntriesTwice == 2

NextTwice == Next \/ RunAgain

InitTwice == InitWith(MaxEntriesTwice)

SpecTwice == InitTwice /\ [][NextTwice]_vars

\* ---- other inputs of the pipeline

\* the state before a run, but for all_race_data
RunStart ==
    /\ pc = "detect"
    /\ config = <<>> /\ flows = <<>> /\ node_counts = <<>> /\ columns = <<>>
    /\ positions = <<>> /\ links = <<>>
    /\ node_labels = <<>> /\ node_colors = <<>>
    /\ run = 1 /\ first_output = <<>>
    /\ VeldIdle /\ TrackIdle /\ LayIdle

\* one A-final of MaxRanked crews at most, each of a veld of its own, with
\* any of these values under 'pos.': missing, ints, strings of digits or not
MaxRanked == 3

PosValues == {NoneV, IntV(1), IntV(2), Str(<<"2">>), Str(<<"x">>), IntV(1000)}

RankedVeld(j) == Str(<<"K">> \o IntToStr(j))

InitRanked ==
    /\ \E n \in 1..MaxRanked :
          \E poss \in [1..n -> PosValues] :
             all_race_data =
                << [k |-> "finales",
                    v |-> << [k |-> RaceSlots[4].race_name,
                              v |-> [j \in 1..n |->
                                        [veld |-> RankedVeld(j), pos |-> NoneV,
                                         pos_dot |-> poss[j]]]] >>] >>
    /\ RunStart

SpecRanked == InitRanked /\ [][Next]_vars

\* races with pool tags that contain one another (DE, DEFG) or are none of
\* ABC, DEFG, DE (AB), and two finals of the same letter; MaxIrregular entries
\* at most in the whole dataset, of the velds of IrregularVelds
MaxIrregular == 3

IrregularSlots ==
    << [race_type |-> "halve finales",
        race_name |-> <<"h","a","l","v","e","-","D","E","-","f","i","n","a","l","e"," ","1">>],
       [race_type |-> "halve finales",
        race_name |-> <<"h","a","l","v","e","-","D","E","F","G","-","f","i","n","a","l","e"," ","1">>],
       [race_type |-> "halve finales",
        race_name |-> <<"h","a","l","v","e","-","A","B","-","f","i","n","a","l","e"," ","1">>],
       [race_type |-> "finales", race_name |-> <<"A","-","f","i","n","a","l","e">>],
       [race_type |-> "finales", race_name |-> <<"A","-","f","i","n","a","l","e"," ","2">>],
       [race_type |-> "finales", race_name |-> <<"D","-","f","i","n","a","l","e">>] >>

IrregularVelds == {Str(<<"V","E"," ","2","x">>), Str(<<"V","G"," ","2","x">>)}

\* the races of one race type among the slots that hold entries
IrregularRaces(race_type, size, velds) ==
    LET races == [s \in 1..Len(IrregularSlots) |->
                    [k |-> IrregularSlots[s].race_name,
                     v |-> [j \in 1..size[s] |->
                               [veld    |-> velds[SumTo(size, s - 1) + j],
                                pos     |-> NoneV,
                                pos_dot |-> IntV(j)]]]]
    IN  PickIndices(races, 1,
                    {s \in 1..Len(IrregularSlots) :
                        IrregularSlots[s].race_type = race_type /\ size[s] > 0})

InitIrregular ==
    /\ \E size \in [1..Len(IrregularSlots) -> 0..MaxIrregular] :
          /\ SumTo(size, Len(IrregularSlots)) <= MaxIrregular
          /\ \E velds \in [1..SumTo(size, Len(IrregularSlots)) -> IrregularVelds] :
                all_race_data =
                   << [k |-> "halve finales",
                       v |-> IrregularRaces("halve finales", size, velds)],
                      [k |-> "finales", v |-> IrregularRaces("finales", size, velds)] >>
    /\ RunStart

SpecIrregular == InitIrregular /\ [][Next]_vars

\* ---- the inputs: finals of which one is named with a dotless i, and a
\* semifinal; MaxDotless entries at most in the whole dataset, of the velds of
\* IrregularVelds
MaxDotless == 3

DotlessSlots ==
    << [race_type |-> "halve finales",
        race_name |-> <<"h","a","l","v","e","-","A","B","C","-","f","i","n","a","l","e"," ","1">>],
       [race_type |-> "finales", race_name |-> <<"A","-","f","i","n","a","l","e">>],
       [race_type |-> "finales", race_name |-> <<"B","-","f",DotlessI,"n","a","l","e">>] >>

\* the races of one race type among the slots that hold entries
DotlessRaces(race_type, size, velds) ==
    LET races == [s \in 1..Len(DotlessSlots) |->
                    [k |-> DotlessSlots[s].race_name,
                     v |-> [j \in 1..size[s] |->
                               [veld    |-> velds[SumTo(size, s - 1) + j],
                                pos     |-> NoneV,
                                pos_dot |-> IntV(j)]]]]
    IN  PickIndices(races, 1,
                    {s \in 1..Len(DotlessSlots) :
                        DotlessSlots[s].race_type = race_type /\ size[s] > 0})

InitDotless ==
    /\ \E size \in [1..Len(DotlessSlots) -> 0..MaxDotless] :
          /\ SumTo(size, Len(DotlessSlots)) <= MaxDotless
          /\ \E velds \in [1..SumTo(size, Len(DotlessSlots)) -> IrregularVelds] :
                all_race_data =
                   << [k |-> "halve finales",
                       v |-> DotlessRaces("halve finales", size, velds)],
                      [k |-> "finales", v |-> DotlessRaces("finales", size, velds)] >>
    /\ RunStart

SpecDotless == InitDotless /\ [][Next]_vars

\* ======== specifications ========

\* extract_veld on every raw label
NextVeld == Classify

SpecVeld == InitVeld /\ [][NextVeld]_vars

\* the tracker on every sequence of MaxTrack entries at most
NextTrack == TrackEntry

SpecTrack == InitTrack /\ [][NextTrack]_vars

\* calc_positions on every column of MaxColumn nodes at most
NextLayout == CalcPositions

SpecLayout == InitLayout /\ [][NextLayout]_vars

----------------------------------------------------------------------------
(* The claims *)

\* Q is a proper substring of P
ProperSubstring(q, p) == q # p /\ In(q, p)

\* C1 (as claimed): a raw label that contains a pattern P which has another
\* pattern Q as a proper substring is classified with the tag of P, or of a
\* longer pattern that contains P, never with the tag of Q.
C1_ClassifierPriority ==
    (vpc = "done" /\ veld_value.t = "str") =>
        \A i \in 1..Len(VeldPatterns) :
            ( /\ \E j \in 1..Len(VeldPatterns) :
                    ProperSubstring(VeldPatterns[j], VeldPatterns[i])
              /\ In(VeldPatterns[i], veld_value.s) )
            => \E k \in 1..Len(VeldPatterns) :
                  /\ In(VeldPatterns[i], VeldPatterns[k])
                  /\ veld_result = VeldPatterns[k]

RECURSIVE SumSeq(_)
SumSeq(q) == IF q = <<>> THEN 0 ELSE Head(q) + SumSeq(Tail(q))

\* the summed weight of the aggregated edges that leave, and that enter, a node
OutWeight(node) ==
    SumSeq([i \in 1..Len(links) |-> IF links[i].source = node THEN links[i].value ELSE 0])

InWeight(node) ==
    SumSeq([i \in 1..Len(links) |-> IF links[i].target = node THEN links[i].value ELSE 0])

\* the nodes of column c: 1 category, 2 semifinal pool, 3 final, 4 rank
ColumnNodes(c) == Range(columns[c])

\* C2 (as claimed): after the three passes, every category, pool and final node
\* has outgoing edge weights that sum to node_counts[node], and every pool,
\* final and rank node has incoming edge weights that sum to node_counts[node].
C2_Conservation ==
    pc = "done" =>
        /\ \A node \in ColumnNodes(1) \cup ColumnNodes(2) \cup ColumnNodes(3) :
              OutWeight(node) = GetOr(node_counts, node, 0)
        /\ \A node \in ColumnNodes(2) \cup ColumnNodes(3) \cup ColumnNodes(4) :
              InWeight(node) = GetOr(node_counts, node, 0)

\* C2 (amended): node_counts[node] is the outgoing weight of a category node,
\* the incoming weight of a rank node, and the sum of the incoming and the
\* outgoing weight of a pool or final node; every node counted is in a column.
C2_ConservationBothEndpoints ==
    pc = "done" =>
        /\ Keys(node_counts) = Range(AllNodes(columns))
        /\ \A node \in ColumnNodes(1) :
              OutWeight(node) = Get(node_counts, node) /\ InWeight(node) = 0
        /\ \A node \in ColumnNodes(2) \cup ColumnNodes(3) :
              InWeight(node) + OutWeight(node) = Get(node_counts, node)
        /\ \A node \in ColumnNodes(4) :
              InWeight(node) = Get(node_counts, node) /\ OutWeight(node) = 0

\* a finished run with a pool node and a final node that both receive and send
C2_Witness ==
    /\ pc = "done"
    /\ \E node \in ColumnNodes(2) : InWeight(node) > 0 /\ OutWeight(node) > 0
    /\ \E node \in ColumnNodes(3) : InWeight(node) > 0 /\ OutWeight(node) > 0
    /\ ColumnNodes(4) # {}

\* C3 (as claimed): a second run of the pipeline on the same input ends with
\* the configuration, node list, positions and link list of the first run.
C3_Determinism ==
    (pc = "done" /\ run = 2) => Output = first_output

\* the crew key the specification gives an entry: code, or code + '_' +
\* crew_member with spaces replaced by '_'
ClaimNonEmpty(v) == v.t = "str" /\ v.s # <<>>

ClaimCrewKey(entry) ==
    IF ClaimNonEmpty(entry.crew_member)
    THEN Str(entry.code.s \o <<"_">> \o
             [i \in 1..Len(entry.crew_member.s) |->
                 IF entry.crew_member.s[i] = " " THEN "_" ELSE entry.crew_member.s[i]])
    ELSE entry.code

\* the processed entries that have a non-empty code
CodedEntries == {i \in 1..Len(processed) : ClaimNonEmpty(processed[i].entry.code)}

NoDuplicateKeys(d) == \A i, j \in 1..Len(d) : d[i].k = d[j].k => i = j

\* C4: one record per distinct crew key among the entries with a non-empty
\* code, none for the others; a record's stages hold exactly one entry for each
\* stage type the crew key appeared in.
C4_ProgressionComplete ==
    /\ NoDuplicateKeys(crew_progression)
    /\ Keys(crew_progression) = {ClaimCrewKey(processed[i].entry) : i \in CodedEntries}
    /\ \A r \in 1..Len(crew_progression) :
          /\ NoDuplicateKeys(crew_progression[r].v.stages)
          /\ Keys(crew_progression[r].v.stages) =
                { Get(stage_names, processed[i].race_type) :
                    i \in {j \in CodedEntries :
                             ClaimCrewKey(processed[j].entry) = crew_progression[r].k} }

\* C4's scenario: crew 117 without a crew member seen in a qualifying race and
\* in a semifinal race has one record with two stage entries, next to an entry
\* without a code that was skipped
C4_Witness ==
    /\ Len(processed) = 3
    /\ \E i \in 1..Len(processed) : ~ClaimNonEmpty(processed[i].entry.code)
    /\ Has(crew_progression, Str(<<"1","1","7">>))
    /\ Keys(Get(crew_progression, Str(<<"1","1","7">>)).stages) =
          {Get(stage_names, "voorwedstrijden"), Get(stage_names, "halve finales")}

\* the first processed entry with a code, this crew key and this stage
FirstEntryOf(key, stage_name) ==
    CHOOSE i \in CodedEntries :
        /\ ClaimCrewKey(processed[i].entry) = key
        /\ Get(stage_names, processed[i].race_type) = stage_name
        /\ \A j \in CodedEntries :
              ( /\ ClaimCrewKey(processed[j].entry) = key
                /\ Get(stage_names, processed[j].race_type) = stage_name ) => i <= j

\* C5 (as claimed): the identifier recorded for a crew key under a stage is the
\* one of the first race processed for that key and stage; later entries do not
\* change it.
C5_StageWriteOnce ==
    \A r \in 1..Len(crew_progression) :
        \A s \in 1..Len(crew_progression[r].v.stages) :
            LET st == crew_progression[r].v.stages[s]
                e  == processed[FirstEntryOf(crew_progression[r].k, st.k)].entry
            IN  st.v = stage_id_of(st.k, e.race_sub_number)

\* C6 (as claimed): two entries of the same stage type get the same stage
\* identifier exactly when they belong to the same race instance.
C6_StageIdSeparatesRaces ==
    \A i, j \in CodedEntries :
        processed[i].race_type = processed[j].race_type =>
            ( stage_id_of(Get(stage_names, processed[i].race_type),
                          processed[i].entry.race_sub_number)
              = stage_id_of(Get(stage_names, processed[j].race_type),
                            processed[j].entry.race_sub_number)
              <=> processed[i].race_name = processed[j].race_name )

\* the flow triples with the source and target of a link
FlowsOfLink(link) ==
    {f \in 1..Len(flows) :
        flows[f].source = link.source /\ flows[f].target = link.target}

\* C7: in the link list every (source, target) pair occurs once, with the sum
\* of the weights of all flow triples of that pair as its value, and every
\* flow triple's pair is in the list.
C7_ParallelEdgesSummed ==
    pc = "done" =>
        /\ \A i, j \in 1..Len(links) :
              (links[i].source = links[j].source /\ links[i].target = links[j].target)
                  => i = j
        /\ \A i \in 1..Len(links) :
              links[i].value =
                  SumSeq([f \in 1..Len(flows) |->
                             IF f \in FlowsOfLink(links[i]) THEN flows[f].value ELSE 0])
        /\ \A f \in 1..Len(flows) :
              \E i \in 1..Len(links) : f \in FlowsOfLink(links[i])

\* two semifinal races of the same pool each hold a crew of the same category:
\* two triples, one link of weight 2
C7_Witness ==
    /\ pc = "done"
    /\ Len(RacesOf(all_race_data, "halve finales")) >= 2
    /\ \E i \in 1..Len(links) :
          /\ links[i].value = 2
          /\ Cardinality(FlowsOfLink(links[i])) = 2
          /\ StartsWith(links[i].source, W_Veld)

V_A == <<"A">>

V_B == <<"B">>

\* C8's input: one semifinal race tagged ABC with an A and a B entry, and the
\* A-final alone with an A and a B crew at distinct numeric positions
C8_Scenario ==
    LET semis  == RacesOf(all_race_data, "halve finales")
        finals == RacesOf(all_race_data, "finales")
    IN  /\ Len(semis) = 1 /\ Len(finals) = 1
        /\ semis[1].k = RaceSlots[1].race_name
        /\ finals[1].k = RaceSlots[4].race_name
        /\ Len(semis[1].v) = 2 /\ Len(finals[1].v) = 2
        /\ {semis[1].v[e].veld : e \in 1..2} = {Str(V_A), Str(V_B)}
        /\ {finals[1].v[e].veld : e \in 1..2} = {Str(V_A), Str(V_B)}
        /\ get_position(finals[1].v[1]) # get_position(finals[1].v[2])
        /\ \A e \in 1..2 : get_position(finals[1].v[e]) # InvalidPosition

\* the crews of the A-final of the scenario, lower parsed position first
C8_Ranked ==
    LET crews == RacesOf(all_race_data, "finales")[1].v
    IN  IF get_position(crews[1]) < get_position(crews[2])
        THEN <<crews[1].veld.s, crews[2].veld.s>>
        ELSE <<crews[2].veld.s, crews[1].veld.s>>

\* C8: on the scenario's input the links are exactly the six of weight 1:
\* A -> ABC_A, B -> ABC_B, ABC_A -> Finale A, ABC_B -> Finale A, Finale A ->
\* rank 1 with the category of the crew of the lower position, Finale A -> rank
\* 2 with the other's.
C8_OnePoolOneFinal ==
    (pc = "done" /\ C8_Scenario) =>
        /\ Len(links) = 6
        /\ {<<links[i].source, links[i].target, links[i].value>> : i \in 1..Len(links)}
             = { <<VeldNode(V_A), PoolNode(G_ABC, V_A), 1>>,
                 <<VeldNode(V_B), PoolNode(G_ABC, V_B), 1>>,
                 <<PoolNode(G_ABC, V_A), FinaleNode("A"), 1>>,
                 <<PoolNode(G_ABC, V_B), FinaleNode("A"), 1>>,
                 <<FinaleNode("A"), RankNode(1, C8_Ranked[1]), 1>>,
                 <<FinaleNode("A"), RankNode(2, C8_Ranked[2]), 1>> }

\* the scenario, finished, with the crew listed second in the final at the
\* lower position
C8_Witness ==
    /\ pc = "done"
    /\ C8_Scenario
    /\ LET crews == RacesOf(all_race_data, "finales")[1].v
       IN  get_position(crews[2]) < get_position(crews[1])
    /\ Len(links) = 6

\* C9: every node of a non-empty column gets a y in [0.001, 0.999], the clamped
\* centre of its band; the bands [from/total, to/total] start at 0, follow one
\* another without gap or overlap and end at 1; y does not decrease down the
\* column; an empty column is laid out without a division by zero.
C9_LayoutValid ==
    lpc = "done" =>
        LET n     == Len(lay_positions)
            total == SumCounts([i \in 1..Len(lay_counts) |-> i], lay_counts)
        IN  /\ n = Len(lay_counts)
            /\ \A i \in 1..n :
                  /\ ~lay_positions[i].zero_div
                  /\ FracLeq(<<1, 1000>>, lay_positions[i].y)
                  /\ FracLeq(lay_positions[i].y, <<999, 1000>>)
                  /\ lay_positions[i].from < lay_positions[i].to
                  /\ lay_positions[i].to - lay_positions[i].from = lay_counts[i].v
                  /\ LET mid == <<lay_positions[i].from + lay_positions[i].to, 2 * total>>
                     IN  \/ lay_positions[i].y = mid
                         \/ lay_positions[i].y = <<1, 1000>> /\ FracLeq(mid, <<1, 1000>>)
                         \/ lay_positions[i].y = <<999, 1000>> /\ FracLeq(<<999, 1000>>, mid)
            /\ n > 0 => lay_positions[1].from = 0 /\ lay_positions[n].to = total
            /\ \A i \in 1..(n - 1) :
                  /\ lay_positions[i].to = lay_positions[i + 1].from
                  /\ FracLeq(lay_positions[i].y, lay_positions[i + 1].y)

\* a column whose first node is so thin that its centre is clamped to 0.001
C9_Witness ==
    /\ lpc = "done"
    /\ Len(lay_positions) >= 3
    /\ lay_positions[1].y = <<1, 1000>>
    /\ lay_positions[1].to * 1000 < SumCounts([i \in 1..Len(lay_counts) |-> i], lay_counts)

\* the categories present in the data: every non-empty veld other than 'Unknown'
ClaimCategories ==
    UNION { UNION { { all_race_data[t].v[r].v[e].veld.s :
                        e \in {x \in 1..Len(all_race_data[t].v[r].v) :
                                 /\ ClaimNonEmpty(all_race_data[t].v[r].v[x].veld)
                                 /\ all_race_data[t].v[r].v[x].veld.s # UnknownStr} }
                    : r \in 1..Len(all_race_data[t].v) }
            : t \in 1..Len(all_race_data) }

\* C10: veld_order holds every category present in the data once and nothing
\* else; the categories of the ordering template come first, in template
\* order, and the others follow in ascending order.
C10_VeldOrderComplete ==
    pc \notin {"idle", "detect"} =>
        LET order    == config.veld_order
            template == BaseOrder(config.prefix_patterns, config.boat_class)
            at(v)    == CHOOSE i \in 1..Len(template) : template[i] = v
        IN  /\ Range(order) = ClaimCategories
            /\ \A i, j \in 1..Len(order) : order[i] = order[j] => i = j
            /\ \A i, j \in 1..Len(order) :
                  i < j =>
                     \/ /\ order[i] \in Range(template) /\ order[j] \in Range(template)
                        /\ at(order[i]) < at(order[j])
                     \/ order[i] \in Range(template) /\ order[j] \notin Range(template)
                     \/ /\ order[i] \notin Range(template) /\ order[j] \notin Range(template)
                        /\ StrLess(order[i], order[j])

\* a configuration whose veld_order has a category of the template followed by
\* one that is not in it
C10_Witness ==
    /\ pc = "halve"
    /\ Len(config.veld_order) = 2
    /\ config.veld_order[1] \in Range(BaseOrder(config.prefix_patterns, config.boat_class))
    /\ config.veld_order[2] \notin Range(BaseOrder(config.prefix_patterns, config.boat_class))

\* a raw value that is a str of nothing but blanks (the empty str included)
ClaimBlank(v) == v.t = "str" /\ \A i \in 1..Len(v.s) : v.s[i] = " "

\* C11 (as claimed): extract_veld returns 'Unknown' for a missing value and for
\* an empty or blank string.
C11_MissingOrEmptyUnknown ==
    (vpc = "done" /\ (veld_value.t = "none" \/ ClaimBlank(veld_value)))
        => veld_result = UnknownStr

\* C11 (amended): extract_veld returns 'Unknown' for a missing value and 'Other'
\* for an empty or blank string; every call returns a non-empty tag.
C11_MissingUnknownEmptyOther ==
    vpc = "done" =>
        /\ veld_value.t = "none" => veld_result = UnknownStr
        /\ ClaimBlank(veld_value) => veld_result = OtherStr
        /\ veld_result # <<>>

\* a blank string has been classified
C11_Witness ==
    /\ vpc = "done"
    /\ veld_value = Str(<<" ">>)
    /\ veld_result = OtherStr

\* C12 (as claimed): every node of column 2 has the empty string as its display
\* label, and every node of the other three columns has its node key as label.
C12_PoolNodesUnlabeled ==
    pc = "done" =>
        LET all_nodes == AllNodes(columns)
        IN  /\ Len(node_labels) = Len(all_nodes)
            /\ \A i \in 1..Len(all_nodes) :
                  node_labels[i] = IF all_nodes[i] \in ColumnNodes(2) THEN <<>>
                                   ELSE all_nodes[i]

\* the final-stage races with a letter, and the letters they carry
ClaimFinals ==
    LET finals == RacesOf(all_race_data, "finales")
    IN  {r \in 1..Len(finals) : FinaleMatchIndex(finals[r].k) # 0}

ClaimFinalLetters ==
    {FinaleLetterOf(RacesOf(all_race_data, "finales")[r].k) : r \in ClaimFinals}

\* the rank flows the claim expects: for the crew at index i (from 1) of the
\* sorted entries of a final with letter L, rank 6 * k + i, with k the number
\* of letters of final-stage races before L
ClaimRankFlows ==
    LET finals == RacesOf(all_race_data, "finales")
    IN  UNION { LET letter == FinaleLetterOf(finals[r].k)
                    k      == Cardinality({l \in ClaimFinalLetters :
                                              StrLess(<<l>>, <<letter>>)})
                    sorted == SortedEntries(finals[r].v)
                IN  { [source |-> FinaleNode(letter),
                       target |-> RankNode(PositionsPerFinale * k + i, sorted[i].veld.s),
                       value  |-> 1] :
                      i \in {x \in 1..Len(sorted) : KnownVeld(sorted[x].veld)} }
                : r \in ClaimFinals }

\* C13 (as claimed): the flows of the final -> rank pass are those that give
\* the crew at index i of a final's sorted entries the rank 6 * k + i + 1
\* (i from 0), where k counts the letters of final-stage races before the
\* final's letter; semifinal races do not change k.
C13_RankOffsets ==
    pc = "done" =>
        {flows[f] : f \in {x \in 1..Len(flows) : StartsWith(flows[x].target, W_Eindklassering)}}
            = ClaimRankFlows

\* the crews of the final of SpecRanked, in input order
RankedCrews == RacesOf(all_race_data, "finales")[1].v

\* a position that is an int or a string of digits, and its value
ClaimNumeric(e) ==
    e.pos_dot.t = "int" \/ (e.pos_dot.t = "str" /\ IsDigitStr(e.pos_dot.s))

ClaimParsed(e) == IF e.pos_dot.t = "int" THEN e.pos_dot.n ELSE DigitsToInt(e.pos_dot.s)

\* the rank the pass gave the crew at index j of the input
RankGiven(j) ==
    CHOOSE n \in 1..Len(RankedCrews) :
        \E f \in 1..Len(flows) : flows[f].target = RankNode(n, RankedCrews[j].veld.s)

\* C14 (as claimed): the crews of a final are ranked in ascending order of
\* parsed position; a crew whose position is missing or not numeric is ranked
\* after every crew with a numeric position; crews with equal parsed position,
\* and crews without one, keep their input order; every crew gets a rank.
C14_MalformedRankLast ==
    pc = "done" =>
        /\ \A j \in 1..Len(RankedCrews) :
              \E f \in 1..Len(flows) :
                 \E n \in 1..Len(RankedCrews) :
                    flows[f].target = RankNode(n, RankedCrews[j].veld.s)
        /\ \A a, b \in 1..Len(RankedCrews) :
              LET ea == RankedCrews[a]
                  eb == RankedCrews[b]
              IN  /\ (ClaimNumeric(ea) /\ ClaimNumeric(eb) /\ ClaimParsed(ea) < ClaimParsed(eb))
                        => RankGiven(a) < RankGiven(b)
                  /\ (ClaimNumeric(ea) /\ ~ClaimNumeric(eb)) => RankGiven(a) < RankGiven(b)
                  /\ ( /\ a < b
                       /\ \/ ~ClaimNumeric(ea) /\ ~ClaimNumeric(eb)
                          \/ /\ ClaimNumeric(ea) /\ ClaimNumeric(eb)
                             /\ ClaimParsed(ea) = ClaimParsed(eb) )
                        => RankGiven(a) < RankGiven(b)

\* the pool and the category of a pool node '<pool>_<category>'
ClaimPoolOf(node) == SubSeq(node, 1, Find(<<"_">>, node) - 1)

ClaimVeldOf(node) == SubSeq(node, Find(<<"_">>, node) + 1, Len(node))

\* the index of a category in config['veld_order']
ClaimVeldIndex(veld) == CHOOSE i \in 1..Len(config.veld_order) : config.veld_order[i] = veld

\* C15 (as claimed): in column 2 the nodes of one pool are contiguous, and
\* within a pool the nodes follow the order of their own categories in
\* config['veld_order'].
C15_Column2Order ==
    pc = "done" =>
        LET col2 == columns[2]
        IN  /\ \A i, j, k \in 1..Len(col2) :
                  (i < j /\ j < k /\ ClaimPoolOf(col2[i]) = ClaimPoolOf(col2[k]))
                      => ClaimPoolOf(col2[j]) = ClaimPoolOf(col2[i])
            /\ \A i, j \in 1..Len(col2) :
                  (i < j /\ ClaimPoolOf(col2[i]) = ClaimPoolOf(col2[j]))
                      => ClaimVeldIndex(ClaimVeldOf(col2[i])) < ClaimVeldIndex(ClaimVeldOf(col2[j]))

\* the category of a rank node 'Eindklassering <n> (<category>)'
ClaimRankVeldOf(node) == SubSeq(node, Find(<<"(">>, node) + 1, Len(node) - 1)

\* C16 (as claimed): every pool node and every rank node of the node list has
\* the colour get_adaptive_colors gives its own category, and every final node
\* has the neutral colour '#95A5A6'.
C16_ColourInheritance ==
    pc = "done" =>
        LET all_nodes   == AllNodes(columns)
            veld_colors == get_adaptive_colors(config)
        IN  \A i \in 1..Len(all_nodes) :
               /\ all_nodes[i] \in ColumnNodes(2)
                     => node_colors[i] = Get(veld_colors, ClaimVeldOf(all_nodes[i]))
               /\ all_nodes[i] \in ColumnNodes(3) => node_colors[i] = "#95A5A6"
               /\ all_nodes[i] \in ColumnNodes(4)
                     => node_colors[i] = Get(veld_colors, ClaimRankVeldOf(all_nodes[i]))

\* the boat class a category mentions, by the tests of lines 61-68; <<>> if none
ClaimClassOf(veld) ==
    IF In(B_2x, veld) THEN B_2x
    ELSE IF In(B_4min, veld) THEN B_4min
    ELSE IF In(B_4plus, veld) THEN B_4plus
    ELSE IF In(B_8plus, veld) THEN B_8plus
    ELSE <<>>

\* the class found first in the scan of the sorted categories, '2x' if none
ClaimFirstClass ==
    LET veld_list == SortedStrs(ClaimCategories)
        hits      == {i \in 1..Len(veld_list) : ClaimClassOf(veld_list[i]) # <<>>}
    IN  IF hits = {} THEN B_2x
        ELSE ClaimClassOf(veld_list[CHOOSE i \in hits : \A j \in hits : i <= j])

\* C17 (as claimed): the boat_class of the configuration is the class found
\* first in the scan of the sorted category list, and '2x' when no category
\* mentions a class.
C17_BoatClassFirstFound ==
    pc \notin {"idle", "detect"} => config.boat_class = ClaimFirstClass

\* C18 (as claimed): when a semifinal race's name carries the group tag G and
\* a final's letter L is one of the letters of G, the semifinal race and the
\* final are both given the pool G.
C18_PoolContinuity ==
    pc \notin {"idle", "detect"} =>
        LET semis  == RacesOf(all_race_data, "halve finales")
            finals == RacesOf(all_race_data, "finales")
        IN  \A s \in 1..Len(semis) :
               \A r \in {x \in 1..Len(finals) : FinaleMatchIndex(finals[x].k) # 0} :
                  LET G == HalveGroupOf(semis[s].k)
                      L == FinaleLetterOf(finals[r].k)
                  IN  (G # <<>> /\ L \in Range(G)) =>
                         /\ create_adaptive_halve_finale_groups(semis[s].k, config) = G
                         /\ get_finale_group_from_letter(L, config) = G

\* the number of a rank node 'Eindklassering <n> (<category>)'
ClaimRankNumberOf(node) ==
    SubSeq(node, Len(W_Eindklassering) + 2, Find(<<"(">>, node) - 2)

\* C19 (as claimed): every rank node has the accumulated count 1 and no two
\* rank nodes carry the same rank number.
C19_RankUnique ==
    pc = "done" =>
        LET ranks == {node \in Keys(node_counts) : StartsWith(node, W_Eindklassering)}
        IN  /\ \A node \in ranks : Get(node_counts, node) = 1
            /\ \A a, b \in ranks :
                  ClaimRankNumberOf(a) = ClaimRankNumberOf(b) => a = b

\* the group tags of the semifinal races' names
ClaimPoolTags ==
    LET semis == RacesOf(all_race_data, "halve finales")
    IN  {HalveGroupOf(semis[s].k) : s \in 1..Len(semis)} \ {<<>>}

\* C20 (as claimed): config['finale_letters'] holds exactly the letters of the
\* final-stage races; a semifinal race adds no letter to it, only its group
\* tag to config['halve_finale_groups'].
C20_FinalLettersFromFinals ==
    pc \notin {"idle", "detect"} =>
        /\ Range(config.finale_letters) = {<<l>> : l \in ClaimFinalLetters}
        /\ ClaimPoolTags # {} => Range(config.halve_finale_groups) = ClaimPoolTags


\* how often a node is in the node list all_nodes
ClaimOccurrences(node) ==
    Cardinality({i \in 1..Len(AllNodes(columns)) : AllNodes(columns)[i] = node})

=============================================================================
